---- MODULE Spec2Model ----
(***************************************************************************)
(* Document AI Service (app/main.py, app/services.py).                     *)
(*                                                                         *)
(* State: the in-memory mapping file_storage, the files under              *)
(* UPLOAD_FOLDER, the two model handles, and the position of every request *)
(* being handled.  upload_file is an "async def" endpoint and runs on the  *)
(* event loop; summarize_document and ask_question are plain "def"         *)
(* endpoints and run on worker threads, so their statements interleave     *)
(* with those of an upload.  Spec and SpecLong have the one event loop;    *)
(* SpecUploads lets two uploads interleave statement by statement, which   *)
(* is a superset of what the event loop produces.                          *)
(*                                                                         *)
(* Abstractions.  A string is a sequence of one-character strings.  A      *)
(* byte stream is a sequence of chunks, a chunk a sequence of bytes;       *)
(* shutil.copyfileobj writes one chunk per step.  For a .pdf file a chunk  *)
(* stands for a page and for a .docx file for a paragraph.  The byte       *)
(* BadByte is not decodable as UTF-8 and makes PdfReader and docx.Document *)
(* raise.  uuid.uuid4() is taken to return a value it never returned       *)
(* before.                                                                 *)
(***************************************************************************)
EXTENDS Integers, Sequences, FiniteSets, TLC

VARIABLES file_storage, disk, summarizer_model, qa_model, uuid_draws, up, worker, returned

vars == <<file_storage, disk, summarizer_model, qa_model, uuid_draws, up, worker, returned>>

(* ---------------------------- bounds ---------------------------------- *)

\* number of uuid4() draws, i.e. of uploads that pass the extension check
MaxUploads == 2
\* the longest document has max_length + MaxOver characters
MaxOver == 1

(* ------------------------- program constants -------------------------- *)

UPLOAD_FOLDER == "uploaded_files"

valid_extensions == {<<".", "t", "x", "t">>, <<".", "p", "d", "f">>, <<".", "d", "o", "c", "x">>}

max_length == 1500

None == "None"
Loaded == "pipeline"
BadByte == "xFF"
Whitespace == {" ", "\n"}

\* the event loop, which runs upload_file
Uploaders == {"loop"}
\* two uploads in progress at once
ConcurrentUploaders == {"u1", "u2"}
\* the thread running summarize_document and ask_question
Workers == {"w1"}

(* ------------------------- strings and paths -------------------------- *)

Max(S) == CHOOSE m \in S : \A n \in S : n <= m

\* str.rfind for a single character; 0 stands for Python's -1
rfind(p, c) == Max({0} \cup {i \in DOMAIN p : p[i] = c})

\* os.path.splitext(p)[1]: the suffix from the last dot, provided the dot
\* comes after the last separator and is not part of a run of leading dots
splitext(p) ==
    LET sepIndex == rfind(p, "/")
        dotIndex == rfind(p, ".")
    IN  IF /\ dotIndex > sepIndex
           /\ \E i \in (sepIndex + 1)..(dotIndex - 1) : p[i] # "."
        THEN SubSeq(p, dotIndex, Len(p))
        ELSE <<>>

lowerChar(c) ==
    CASE c = "T" -> "t"
      [] c = "X" -> "x"
      [] c = "P" -> "p"
      [] c = "D" -> "d"
      [] c = "F" -> "f"
      [] OTHER -> c

\* str.lower()
lower(s) == [i \in DOMAIN s |-> lowerChar(s[i])]

\* str.strip(): drop leading and trailing whitespace
strip(t) ==
    IF \A i \in DOMAIN t : t[i] \in Whitespace THEN <<>>
    ELSE LET first == CHOOSE i \in DOMAIN t :
                         t[i] \notin Whitespace /\ \A j \in 1..(i - 1) : t[j] \in Whitespace
             last == CHOOSE i \in DOMAIN t :
                         t[i] \notin Whitespace /\ \A j \in (i + 1)..Len(t) : t[j] \in Whitespace
         IN  SubSeq(t, first, last)

\* str(uuid.uuid4()) for the n-th draw
uuid4(n) == "uuid-" \o ToString(n)

\* the extension is left out of the path
join_mut(file_id, file_extension) == <<UPLOAD_FOLDER, "/", file_id>>

\* os.path.join(UPLOAD_FOLDER, file_id + file_extension)
join(file_id, file_extension) == <<UPLOAD_FOLDER, "/", file_id>> \o file_extension

RECURSIVE concat(_)
concat(chunks) ==
    IF chunks = <<>> THEN <<>> ELSE Head(chunks) \o concat(Tail(chunks))

\* file.size: the number of bytes of the uploaded stream
size(stream) == Len(concat(stream))

(* ----------------------------- exceptions ----------------------------- *)

NoExc == [type |-> None, status_code |-> 0, detail |-> ""]

HTTPException(status_code, detail) ==
    [type |-> "HTTPException", status_code |-> status_code, detail |-> detail]

Raised(type) == [type |-> type, status_code |-> 0, detail |-> ""]

\* the try/except of every endpoint in main.py: an HTTPException is
\* re-raised as it is, anything else becomes a 500
endpoint(exc) ==
    IF exc.type = "HTTPException" THEN exc
    ELSE HTTPException(500, "An unexpected error occurred")

Response(status_code, detail) == [status_code |-> status_code, detail |-> detail]

NoResponse == Response(0, "")

ErrorResponse(exc) == Response(endpoint(exc).status_code, endpoint(exc).detail)

(* --------------------------- text extraction -------------------------- *)

Corrupt(content) == \E i \in DOMAIN content : BadByte \in {content[i][j] : j \in DOMAIN content[i]}

\* page.extract_text(): None for a page without extractable text
page_extract_text(page) == IF page = <<>> THEN None ELSE page

RECURSIVE pdf_text(_)
pdf_text(pages) ==
    IF pages = <<>> THEN <<>>
    ELSE (IF page_extract_text(Head(pages)) = None THEN <<>> ELSE page_extract_text(Head(pages)))
         \o pdf_text(Tail(pages))

RECURSIVE docx_text(_)
docx_text(paragraphs) ==
    IF paragraphs = <<>> THEN <<>>
    ELSE Head(paragraphs) \o <<"\n">> \o docx_text(Tail(paragraphs))

Extracted(text) == [exc |-> NoExc, text |-> text]
Failed(exc) == [exc |-> exc, text |-> <<>>]

\* extract_text(file_path) on the file content found at file_path
extract_text(content, file_path) ==
    LET file_extension == splitext(file_path)
    IN  IF lower(file_extension) = <<".", "t", "x", "t">>
        THEN IF Corrupt(content) THEN Failed(Raised("UnicodeDecodeError"))
             ELSE Extracted(concat(content))
        ELSE IF lower(file_extension) = <<".", "p", "d", "f">>
        THEN IF Corrupt(content) THEN Failed(HTTPException(500, "Error reading PDF file"))
             ELSE Extracted(pdf_text(content))
        ELSE IF lower(file_extension) = <<".", "d", "o", "c", "x">>
        THEN IF Corrupt(content) THEN Failed(HTTPException(500, "Error reading DOCX file"))
             ELSE Extracted(docx_text(content))
        ELSE Failed(HTTPException(400, "Unsupported file type"))

(* ------------------------------ inputs -------------------------------- *)

LongText(n) == [i \in 1..n |-> IF i <= max_length THEN "a" ELSE "b"]

Upload(filename, stream) == [filename |-> filename, stream |-> stream]

\* the uploads a client may send: filename and byte stream
Catalog ==
    {  Upload(<<"n", ".", "t", "x", "t">>, << <<"a", " ">>, <<"b">> >>),
       Upload(<<"n", ".", "T", "X", "T">>, << <<" ", "\n">> >>),
       Upload(<<"n", ".", "t", "x", "t">>, << <<"a">>, <<BadByte>> >>),
       Upload(<<"r", ".", "p", "d", "f">>, << <<>>, <<"a", "b">> >>),
       Upload(<<"r", ".", "P", "d", "f">>, << <<BadByte>> >>),
       Upload(<<"d", ".", "d", "o", "c", "x">>, << <<" ">> >>),
       Upload(<<"d", ".", "d", "o", "c", "x">>, << <<BadByte, "a">> >>),
       Upload(<<"x", ".", "e", "x", "e">>, << <<"a">> >>),
       Upload(<<".", "t", "x", "t">>, << <<"a">> >>),
       Upload(<<"d", ".", "c", "s", "v">>, <<>>) }

\* documents around the summarizer's input cap: .txt files of max_length
\* characters and more, and a .docx paragraph that reaches the cap with its
\* newline
LongCatalog ==
    { Upload(<<"n", ".", "t", "x", "t">>, << LongText(max_length + k) >>) : k \in 0..MaxOver }
    \cup { Upload(<<"d", ".", "d", "o", "c", "x">>, << LongText(max_length - 1) >>) }

\* uploads for the interleaving of two uploads
SmallCatalog ==
    {  Upload(<<"n", ".", "t", "x", "t">>, << <<"a", " ">>, <<"b">> >>),
       Upload(<<"n", ".", "t", "x", "t">>, << <<"b">> >>),
       Upload(<<"r", ".", "p", "d", "f">>, << <<"a">>, <<>> >>),
       Upload(<<"x", ".", "e", "x", "e">>, << <<"a">> >>) }

\* the identifiers a client may ask about
RequestIds == {uuid4(n) : n \in 1..MaxUploads} \cup {"no-such-id"}

Questions == {<<"w", "h", "a", "t", "?">>}

(* ------------------------------- state -------------------------------- *)

IdleUpload ==
    [pc |-> "idle", filename |-> <<>>, stream |-> <<>>, file_extension |-> <<>>,
     file_id |-> None, file_path |-> <<>>, written |-> 0, response |-> NoResponse]

IdleWorker ==
    [pc |-> "idle", op |-> None, file_id |-> None, question |-> <<>>, file_path |-> <<>>,
     document_text |-> <<>>, extract_exc |-> NoExc, model_input |-> None,
     steps |-> <<>>, response |-> NoResponse]

\* services.py, lines 10-27: an empty mapping, an upload folder without
\* uploads, and the two pipelines either both loaded or both None
Start(uploaders, loads) ==
    /\ file_storage = <<>>
    /\ disk = <<>>
    /\ \E loaded \in loads :
          /\ summarizer_model = IF loaded THEN Loaded ELSE None
          /\ qa_model = IF loaded THEN Loaded ELSE None
    /\ uuid_draws = 0
    /\ up = [u \in uploaders |-> IdleUpload]
    /\ worker = [w \in Workers |-> IdleWorker]
    /\ returned = <<>>

Init == Start(Uploaders, BOOLEAN)

\* the same start, with two uploads able to run at once
InitUploads == Start(ConcurrentUploaders, BOOLEAN)

\* the start with both pipelines loaded
InitLong == Start(Uploaders, {TRUE})

\* dict item assignment and file (re)creation
Put(f, k, v) == [x \in DOMAIN f \cup {k} |-> IF x = k THEN v ELSE f[x]]

(* ------------------------------ upload -------------------------------- *)

Resting(pc) == pc \in {"idle", "done"}

\* POST /uploadfile/ arrives with one of the uploads of catalog
UploadRequestFrom(u, catalog) ==
    /\ Resting(up[u].pc)
    /\ uuid_draws + Cardinality({v \in DOMAIN up : up[v].pc = "validate"}) < MaxUploads
    /\ \E f \in catalog :
          up' = [up EXCEPT ![u] = [IdleUpload EXCEPT !.pc = "validate",
                                                      !.filename = f.filename,
                                                      !.stream = f.stream]]
    /\ UNCHANGED <<file_storage, disk, summarizer_model, qa_model, uuid_draws, worker, returned>>

UploadRequest(u) == UploadRequestFrom(u, Catalog)
UploadLongRequest(u) == UploadRequestFrom(u, LongCatalog)
UploadSmallRequest(u) == UploadRequestFrom(u, SmallCatalog)

\* the extension is compared against a set that also holds .csv
Unsupported_mut(file_extension) ==
    lower(file_extension) \notin valid_extensions \cup {<<".", "c", "s", "v">>}

\* file_extension.lower() not in valid_extensions
Unsupported(file_extension) == lower(file_extension) \notin valid_extensions

\* upload_file_service, lines 62-71: the extension check, then the new
\* identifier and the path
UploadValidate(u) ==
    /\ up[u].pc = "validate"
    /\ LET file_extension == splitext(up[u].filename)
       IN  IF Unsupported(file_extension)
           THEN /\ up' = [up EXCEPT ![u].pc = "done", ![u].stream = <<>>,
                                    ![u].file_extension = file_extension,
                                    ![u].response = ErrorResponse(HTTPException(400,
                                        "Unsupported file type. Please upload a .txt, .pdf, or .docx file."))]
                /\ UNCHANGED uuid_draws
           ELSE /\ uuid_draws' = uuid_draws + 1
                /\ up' = [up EXCEPT ![u].pc = "open",
                                    ![u].file_extension = file_extension,
                                    ![u].file_id = uuid4(uuid_draws'),
                                    ![u].file_path = join(uuid4(uuid_draws'), file_extension)]
    /\ UNCHANGED <<file_storage, disk, summarizer_model, qa_model, worker, returned>>

\* line 74: open(file_path, "wb") creates the empty file, or raises
UploadOpen(u) ==
    /\ up[u].pc = "open"
    /\ \/ /\ disk' = Put(disk, up[u].file_path, <<>>)
          /\ up' = [up EXCEPT ![u].pc = "copy"]
       \/ /\ up' = [up EXCEPT ![u].pc = "done", ![u].stream = <<>>, ![u].written = 0,
                              ![u].response = ErrorResponse(HTTPException(500, "Could not save file"))]
          /\ UNCHANGED disk
    /\ UNCHANGED <<file_storage, summarizer_model, qa_model, uuid_draws, worker, returned>>

\* line 75: shutil.copyfileobj writes the next chunk, or raises and leaves
\* the file as far as it was written
UploadCopy(u) ==
    /\ up[u].pc = "copy"
    /\ up[u].written < Len(up[u].stream)
    /\ \/ /\ disk' = [disk EXCEPT ![up[u].file_path] = Append(@, up[u].stream[up[u].written + 1])]
          /\ up' = [up EXCEPT ![u].written = @ + 1]
       \/ /\ up' = [up EXCEPT ![u].pc = "done", ![u].stream = <<>>, ![u].written = 0,
                              ![u].response = ErrorResponse(HTTPException(500, "Could not save file"))]
          /\ UNCHANGED disk
    /\ UNCHANGED <<file_storage, summarizer_model, qa_model, uuid_draws, worker, returned>>

\* the entry is inserted without waiting for the copy to finish
CopyDone_mut(u) == TRUE

\* the with block of lines 74-75 is left without an exception
CopyDone(u) == up[u].written = Len(up[u].stream)

\* the entry is stored under an identifier drawn once for all uploads
Register_mut(storage, file_id, filename, file_path, file_size) ==
    [x \in DOMAIN storage \cup {uuid4(1)} |->
        IF x = uuid4(1) THEN [filename |-> filename, path |-> file_path, size |-> file_size]
        ELSE storage[x]]

\* lines 79-83: file_storage[file_id] = {...}
Register(storage, file_id, filename, file_path, file_size) ==
    Put(storage, file_id, [filename |-> filename, path |-> file_path, size |-> file_size])

\* lines 79-85: the entry is inserted and the identifier returned; returned
\* is the list of the uploads answered with an identifier
UploadRegister(u) ==
    /\ up[u].pc = "copy"
    /\ CopyDone(u)
    /\ file_storage' = Register(file_storage, up[u].file_id, up[u].filename,
                                up[u].file_path, size(up[u].stream))
    /\ returned' = Append(returned, [file_id |-> up[u].file_id, filename |-> up[u].filename,
                                     stream |-> up[u].stream])
    /\ up' = [up EXCEPT ![u].pc = "done", ![u].stream = <<>>, ![u].written = 0,
                        ![u].response = Response(200, "File uploaded successfully")]
    /\ UNCHANGED <<disk, summarizer_model, qa_model, uuid_draws, worker>>

(* ------------------------- summarize and ask -------------------------- *)

\* GET /summarize/{file_id} or POST /ask/{file_id} arrives
ReadRequest(w) ==
    /\ Resting(worker[w].pc)
    /\ \E op \in {"summarize", "ask"}, file_id \in RequestIds :
          worker' = [worker EXCEPT ![w] = [IdleWorker EXCEPT
                        !.pc = "lookup", !.op = op, !.file_id = file_id,
                        !.question = IF op = "ask" THEN CHOOSE q \in Questions : TRUE ELSE <<>>]]
    /\ UNCHANGED <<file_storage, disk, summarizer_model, qa_model, uuid_draws, up, returned>>

\* the except clause closing each service: whatever was raised inside the
\* try block, an HTTPException included, is raised again as a 500
summarize_except(exc) == HTTPException(500, "An error occurred during summarization")
ask_except(exc) == HTTPException(500, "An error occurred while answering the question")

service_except(op, exc) == IF op = "summarize" THEN summarize_except(exc) ELSE ask_except(exc)

Fail(w, step, exc) ==
    [worker EXCEPT ![w].pc = "done",
                   ![w].steps = Append(@, step),
                   ![w].response = ErrorResponse(exc)]

\* the membership test is missing: file_storage[file_id] raises KeyError
\* outside the try block
Lookup_mut(w) ==
    /\ worker[w].pc = "lookup"
    /\ IF worker[w].file_id \notin DOMAIN file_storage
       THEN worker' = [worker EXCEPT ![w].pc = "done",
                                     ![w].steps = Append(@, "lookup"),
                                     ![w].response = Response(500, "An unexpected error occurred")]
       ELSE worker' = [worker EXCEPT ![w].pc = "extract",
                                     ![w].steps = Append(@, "lookup"),
                                     ![w].file_path = file_storage[worker[w].file_id].path]
    /\ UNCHANGED <<file_storage, disk, summarizer_model, qa_model, uuid_draws, up, returned>>

\* lines 89-92 and 113-116: file_id not in file_storage raises the 404
\* outside the try block; otherwise file_info is read
Lookup(w) ==
    /\ worker[w].pc = "lookup"
    /\ IF worker[w].file_id \notin DOMAIN file_storage
       THEN worker' = Fail(w, "lookup", HTTPException(404, "File not found"))
       ELSE worker' = [worker EXCEPT ![w].pc = "extract",
                                     ![w].steps = Append(@, "lookup"),
                                     ![w].file_path = file_storage[worker[w].file_id].path]
    /\ UNCHANGED <<file_storage, disk, summarizer_model, qa_model, uuid_draws, up, returned>>

\* lines 95 and 119: extract_text(file_info["path"]) inside the try block
Extract(w) ==
    /\ worker[w].pc = "extract"
    /\ LET r == extract_text(disk[worker[w].file_path], worker[w].file_path)
       IN  IF r.exc # NoExc
           THEN worker' = [Fail(w, "extract", service_except(worker[w].op, r.exc))
                              EXCEPT ![w].extract_exc = r.exc]
           ELSE worker' = [worker EXCEPT ![w].pc = "check",
                                         ![w].steps = Append(@, "extract"),
                                         ![w].document_text = r.text]
    /\ UNCHANGED <<file_storage, disk, summarizer_model, qa_model, uuid_draws, up, returned>>

\* the text is compared with the empty string without strip()
blank_mut(text) == text = <<>>

\* not document_text.strip()
blank(text) == strip(text) = <<>>

\* lines 97-98 and 121-122: the 400 for a blank text is raised inside the
\* try block
BlankCheck(w) ==
    /\ worker[w].pc = "check"
    /\ IF blank(worker[w].document_text)
       THEN worker' = Fail(w, "check", service_except(worker[w].op,
                HTTPException(400, "Document is empty or no text could be extracted.")))
       ELSE worker' = [worker EXCEPT ![w].pc = "infer", ![w].steps = Append(@, "check")]
    /\ UNCHANGED <<file_storage, disk, summarizer_model, qa_model, uuid_draws, up, returned>>

\* the slice keeps one character less than the cap
truncate_mut(text) == IF Len(text) > max_length THEN SubSeq(text, 1, max_length - 1) ELSE text

\* lines 101-103: document_text[:max_length] when the text is longer
truncate(text) == IF Len(text) > max_length THEN SubSeq(text, 1, max_length) ELSE text

\* line 124: the context handed to qa_model
context(text) == text

\* a missing model is answered with an empty result instead of an error
Call_mut(w, step, model, input) ==
    \/ /\ model = None
       /\ worker' = [worker EXCEPT ![w].pc = "done",
                                   ![w].steps = Append(@, step),
                                   ![w].response = Response(200, "")]
    \/ /\ model # None
       /\ \/ worker' = [worker EXCEPT ![w].pc = "done",
                                      ![w].steps = Append(@, step),
                                      ![w].model_input = input,
                                      ![w].response = Response(200, "")]
          \/ worker' = [worker EXCEPT ![w].pc = "done",
                                      ![w].steps = Append(@, step),
                                      ![w].model_input = input,
                                      ![w].response = Response(500, "An error occurred")]

\* the call of a pipeline handle: None is not callable, a loaded pipeline
\* returns or raises
Call(w, step, model, input) ==
    \/ /\ model = None
       /\ worker' = [Fail(w, step, service_except(worker[w].op, Raised("TypeError")))
                        EXCEPT ![w].model_input = None]
    \/ /\ model # None
       /\ \/ worker' = [worker EXCEPT ![w].pc = "done",
                                      ![w].steps = Append(@, step),
                                      ![w].model_input = input,
                                      ![w].response = Response(200, "")]
          \/ worker' = [Fail(w, step, service_except(worker[w].op, Raised("RuntimeError")))
                           EXCEPT ![w].model_input = input]

\* lines 101-106: truncation and summarizer_model(document_text, ...)
Summarize(w) ==
    /\ worker[w].pc = "infer"
    /\ worker[w].op = "summarize"
    /\ Call(w, "model", summarizer_model, truncate(worker[w].document_text))
    /\ UNCHANGED <<file_storage, disk, summarizer_model, qa_model, uuid_draws, up, returned>>

\* lines 124-131: qa_model(question=question, context=context)
Ask(w) ==
    /\ worker[w].pc = "infer"
    /\ worker[w].op = "ask"
    /\ Call(w, "model", qa_model, context(worker[w].document_text))
    /\ UNCHANGED <<file_storage, disk, summarizer_model, qa_model, uuid_draws, up, returned>>

Next ==
    \/ \E u \in DOMAIN up : UploadRequest(u)
    \/ \E u \in DOMAIN up : UploadValidate(u)
    \/ \E u \in DOMAIN up : UploadOpen(u)
    \/ \E u \in DOMAIN up : UploadCopy(u)
    \/ \E u \in DOMAIN up : UploadRegister(u)
    \/ \E w \in DOMAIN worker : ReadRequest(w)
    \/ \E w \in DOMAIN worker : Lookup(w)
    \/ \E w \in DOMAIN worker : Extract(w)
    \/ \E w \in DOMAIN worker : BlankCheck(w)
    \/ \E w \in DOMAIN worker : Summarize(w)
    \/ \E w \in DOMAIN worker : Ask(w)

NextLong ==
    \/ \E u \in DOMAIN up : UploadLongRequest(u)
    \/ \E u \in DOMAIN up : UploadValidate(u)
    \/ \E u \in DOMAIN up : UploadOpen(u)
    \/ \E u \in DOMAIN up : UploadCopy(u)
    \/ \E u \in DOMAIN up : UploadRegister(u)
    \/ \E w \in DOMAIN worker : ReadRequest(w)
    \/ \E w \in DOMAIN worker : Lookup(w)
    \/ \E w \in DOMAIN worker : Extract(w)
    \/ \E w \in DOMAIN worker : BlankCheck(w)
    \/ \E w \in DOMAIN worker : Summarize(w)
    \/ \E w \in DOMAIN worker : Ask(w)

NextUploads ==
    \/ \E u \in DOMAIN up : UploadSmallRequest(u)
    \/ \E u \in DOMAIN up : UploadValidate(u)
    \/ \E u \in DOMAIN up : UploadOpen(u)
    \/ \E u \in DOMAIN up : UploadCopy(u)
    \/ \E u \in DOMAIN up : UploadRegister(u)
    \/ \E w \in DOMAIN worker : ReadRequest(w)
    \/ \E w \in DOMAIN worker : Lookup(w)
    \/ \E w \in DOMAIN worker : Extract(w)
    \/ \E w \in DOMAIN worker : BlankCheck(w)
    \/ \E w \in DOMAIN worker : Summarize(w)
    \/ \E w \in DOMAIN worker : Ask(w)

Spec == Init /\ [][Next]_vars

SpecLong == InitLong /\ [][NextLong]_vars

SpecUploads == InitUploads /\ [][NextUploads]_vars

(* ------------------------------ claims -------------------------------- *)

Stored(file_id) == file_id \in DOMAIN file_storage

SupportedPath(file_path) == lower(splitext(file_path)) \in valid_extensions

\* empty or whitespace only
IsBlank(text) == \A i \in DOMAIN text : text[i] \in {" ", "\n"}

Finished(w) == worker[w].pc = "done"

\* the text of the stored document file_id, read from the upload folder
StoredText(file_id) ==
    extract_text(disk[file_storage[file_id].path], file_storage[file_id].path)

\* the upload that was answered with file_id
ReturnedAs(file_id) == {i \in DOMAIN returned : returned[i].file_id = file_id}

\* C1: a summarize or ask request on a stored document whose extracted text
\* is empty or whitespace only ends with status 400 (EmptyDocument) and the
\* model is not called.
C1_EmptyDocumentIs400 ==
    \A w \in DOMAIN worker :
        ( /\ Finished(w)
          /\ worker[w].steps = <<"lookup", "extract", "check">>
          /\ IsBlank(worker[w].document_text) )
        => /\ worker[w].response.status_code = 400
           /\ worker[w].model_input = None

C2_UnknownIdInv ==
    \A w \in DOMAIN worker :
        (Finished(w) /\ ~Stored(worker[w].file_id))
        => /\ worker[w].response = Response(404, "File not found")
           /\ worker[w].steps = <<"lookup">>
           /\ worker[w].file_path = <<>>
           /\ worker[w].document_text = <<>>
           /\ worker[w].extract_exc = NoExc
           /\ worker[w].model_input = None

C2_UnknownIdStep ==
    \A w \in DOMAIN worker :
        ( /\ worker[w].pc = "lookup"
          /\ ~Stored(worker[w].file_id)
          /\ worker'[w] # worker[w] )
        => /\ worker'[w].pc = "done"
           /\ worker'[w].response.status_code = 404
           /\ file_storage' = file_storage
           /\ disk' = disk

\* C2: a summarize or ask request for an identifier that no upload has
\* registered ends with 404 "File not found" after the lookup alone: no file
\* is read, no model is called, and the step leaves the mapping and the
\* files as they were.
C2_UnknownIdIsNotFound == []C2_UnknownIdInv /\ [][C2_UnknownIdStep]_vars

C2_Witness ==
    \E w \in DOMAIN worker :
        /\ Finished(w)
        /\ worker[w].response.status_code = 404
        /\ ~Stored(worker[w].file_id)
        /\ file_storage # <<>>

C3_UnsupportedStep ==
    \A u \in DOMAIN up :
        ( /\ up[u].pc = "validate"
          /\ up'[u] # up[u]
          /\ lower(splitext(up[u].filename)) \notin valid_extensions )
        => /\ up'[u].pc = "done"
           /\ up'[u].response.status_code = 400
           /\ up'[u].file_id = None
           /\ file_storage' = file_storage
           /\ disk' = disk
           /\ uuid_draws' = uuid_draws

C3_UnsupportedInv ==
    \A u \in DOMAIN up :
        (up[u].pc \notin {"idle", "validate"} /\ lower(splitext(up[u].filename)) \notin valid_extensions)
        => /\ up[u].pc = "done"
           /\ up[u].response.status_code = 400
           /\ up[u].file_id = None

\* C3: an upload whose filename has an extension that, lower-cased, is not
\* .txt, .pdf or .docx ends with status 400 in the step that checks the
\* extension, and that step changes neither the files nor the mapping; no
\* identifier is drawn and no path is built for it.
C3_UnsupportedTypeRejected == []C3_UnsupportedInv /\ [][C3_UnsupportedStep]_vars

C3_Witness ==
    \E u \in DOMAIN up :
        /\ up[u].pc = "done"
        /\ up[u].response.status_code = 400
        /\ up[u].filename = <<"x", ".", "e", "x", "e">>
        /\ file_storage # <<>>

\* C4: every entry of the mapping points to a file that holds the whole
\* byte stream of the upload that inserted it, whatever the reader is doing;
\* an upload that drew an identifier and failed ends with status 500 and
\* has no entry; every path a reader holds is that of a wholly written file.
C4_WriteThenRegister ==
    /\ \A file_id \in DOMAIN file_storage :
          /\ ReturnedAs(file_id) # {}
          /\ file_storage[file_id].path \in DOMAIN disk
          /\ \A i \in ReturnedAs(file_id) :
                disk[file_storage[file_id].path] = returned[i].stream
    /\ \A u \in DOMAIN up :
          /\ (up[u].pc = "done" /\ up[u].response.status_code = 500)
                => (up[u].file_id # None /\ ~Stored(up[u].file_id))
          /\ (up[u].pc = "done" /\ up[u].file_id # None /\ ~Stored(up[u].file_id))
                => up[u].response.status_code = 500
          /\ (up[u].pc \in {"open", "copy"}) => ~Stored(up[u].file_id)
    /\ \A w \in DOMAIN worker :
          worker[w].file_path # <<>>
          => \E i \in DOMAIN returned :
                /\ worker[w].file_path = file_storage[returned[i].file_id].path
                /\ disk[worker[w].file_path] = returned[i].stream

C4_Witness ==
    /\ \E u \in DOMAIN up :
          /\ up[u].pc = "done"
          /\ up[u].response.status_code = 500
          /\ up[u].file_path \in DOMAIN disk
          /\ Len(disk[up[u].file_path]) = 1
    /\ \E w \in DOMAIN worker : worker[w].pc = "check"

\* C5: the identifiers returned by successful uploads are pairwise
\* distinct; each is a key of the mapping, whose entry has the upload's
\* filename and the path UPLOAD_FOLDER/<file_id><extension of the filename>,
\* and the file at that path holds that upload's byte stream.
C5_DistinctRetrievable ==
    /\ \A i, j \in DOMAIN returned : returned[i].file_id = returned[j].file_id => i = j
    /\ Cardinality(DOMAIN file_storage) = Len(returned)
    /\ \A i \in DOMAIN returned :
          LET r == returned[i] IN
          /\ Stored(r.file_id)
          /\ file_storage[r.file_id].filename = r.filename
          /\ file_storage[r.file_id].size = size(r.stream)
          /\ file_storage[r.file_id].path = <<UPLOAD_FOLDER, "/", r.file_id>> \o splitext(r.filename)
          /\ file_storage[r.file_id].path \in DOMAIN disk
          /\ disk[file_storage[r.file_id].path] = r.stream

\* the identifier drawn second is returned first: the two uploads overlap
C5_Witness ==
    /\ Len(returned) = 2
    /\ returned[1].file_id = uuid4(2)
    /\ returned[2].file_id = uuid4(1)
    /\ returned[1].filename = returned[2].filename
    /\ returned[1].stream # returned[2].stream

\* C6: when both model handles are None, a summarize or ask request on a
\* stored document with non-blank text ends with status 500 without a model
\* having received an input; the worker can take the next request, unknown
\* identifiers still get 404 and unsupported uploads still get 400.
C6_ModelUnavailable ==
    (summarizer_model = None /\ qa_model = None)
    => /\ \A w \in DOMAIN worker :
             /\ (Finished(w) /\ worker[w].steps = <<"lookup", "extract", "check", "model">>)
                   => /\ worker[w].response.status_code = 500
                      /\ worker[w].model_input = None
             /\ worker[w].response.status_code # 200
             /\ Finished(w) => ENABLED ReadRequest(w)
             /\ (Finished(w) /\ ~Stored(worker[w].file_id))
                   => worker[w].response.status_code = 404
       /\ \A u \in DOMAIN up :
             (up[u].pc = "done" /\ lower(up[u].file_extension) \notin valid_extensions)
                => up[u].response.status_code = 400

C6_Witness ==
    /\ summarizer_model = None
    /\ qa_model = None
    /\ \E w \in DOMAIN worker :
          /\ Finished(w)
          /\ worker[w].steps = <<"lookup", "extract", "check", "model">>
          /\ ~IsBlank(worker[w].document_text)
          /\ worker[w].response.status_code = 500
    /\ \E u \in DOMAIN up : up[u].pc = "done" /\ up[u].response.status_code = 400

\* C7: when a request reaches a loaded model, the stored document's text T
\* is not blank; summarize hands the summarizer the first min(Len(T), 1500)
\* characters of T, and ask hands the question-answerer the whole of T.
C7_PrefixTruncation ==
    \A w \in DOMAIN worker :
        (Finished(w) /\ worker[w].model_input # None)
        => LET T == StoredText(worker[w].file_id).text
               passed == worker[w].model_input
           IN  /\ ~IsBlank(T)
               /\ worker[w].op = "summarize"
                     => /\ Len(passed) = IF Len(T) <= max_length THEN Len(T) ELSE max_length
                        /\ Len(passed) <= 1500
                        /\ \A i \in 1..Len(passed) : passed[i] = T[i]
               /\ worker[w].op = "ask" => passed = T

C7_Witness ==
    \E w \in DOMAIN worker :
        /\ Finished(w)
        /\ worker[w].op = "summarize"
        /\ worker[w].response.status_code = 200
        /\ Len(worker[w].document_text) > max_length
        /\ Len(worker[w].model_input) = max_length

\* C8: whatever extract_text raises is an HTTPException: status 500 for a
\* .txt, .pdf or .docx file that cannot be read or parsed, status 400 for
\* any other extension.
C8_ExtractionFailed ==
    \A w \in DOMAIN worker :
        worker[w].extract_exc # NoExc
        => /\ worker[w].extract_exc.type = "HTTPException"
           /\ worker[w].extract_exc.status_code
                 = IF SupportedPath(worker[w].file_path) THEN 500 ELSE 400

C9_Step ==
    /\ \A file_id \in DOMAIN file_storage :
          /\ file_id \in DOMAIN file_storage'
          /\ file_storage'[file_id] = file_storage[file_id]
          /\ file_storage[file_id].path \in DOMAIN disk'
          /\ disk'[file_storage[file_id].path] = disk[file_storage[file_id].path]
    /\ worker' # worker => (file_storage' = file_storage /\ disk' = disk)
    /\ \A u \in DOMAIN up :
          (up[u].pc # "done" /\ up'[u].pc = "done" /\ up'[u].response.status_code # 200)
          => file_storage' = file_storage

\* C9: an entry of the mapping never changes and is never removed; a step
\* of a summarize or ask request changes neither the mapping nor the files;
\* a step that ends an upload with an error leaves the mapping unchanged.
C9_CreateOnceImmutable == [][C9_Step]_vars

\* an entry exists, a later upload has failed and a request has read the entry
C9_Witness ==
    /\ Stored(uuid4(1))
    /\ \E u \in DOMAIN up :
          /\ up[u].pc = "done"
          /\ up[u].response.status_code = 500
          /\ up[u].file_id = uuid4(2)
    /\ \E w \in DOMAIN worker :
          /\ Finished(w)
          /\ worker[w].file_id = uuid4(1)
          /\ worker[w].response.status_code = 200

StepOrder == <<"lookup", "extract", "check", "model">>

\* C10: the steps of a request are a prefix of lookup, extract, check,
\* model (so each happens at most once and in that order); a model gets an
\* input only after a lookup that found the identifier, an extraction that
\* raised nothing and a check that found the text non-blank; a request that
\* has an error response is over and the step that failed is its last one.
C10_FixedOrder ==
    \A w \in DOMAIN worker :
        /\ Len(worker[w].steps) <= Len(StepOrder)
        /\ worker[w].steps = SubSeq(StepOrder, 1, Len(worker[w].steps))
        /\ ("model" \in {worker[w].steps[i] : i \in DOMAIN worker[w].steps})
              => /\ worker[w].file_path # <<>>
                 /\ worker[w].extract_exc = NoExc
                 /\ ~IsBlank(worker[w].document_text)
        /\ worker[w].model_input # None => worker[w].steps = StepOrder
        /\ worker[w].response.status_code # 0 => Finished(w)
        /\ worker[w].extract_exc # NoExc
              => (Finished(w) /\ worker[w].steps = <<"lookup", "extract">>
                     /\ worker[w].response.status_code # 200)
        /\ (Len(worker[w].steps) >= 3 /\ IsBlank(worker[w].document_text))
              => (Finished(w) /\ worker[w].steps = <<"lookup", "extract", "check">>
                     /\ worker[w].response.status_code # 200)
        /\ worker[w].response.status_code = 200 => worker[w].steps = StepOrder

C10_Witness ==
    /\ \E w \in DOMAIN worker :
          /\ Finished(w)
          /\ worker[w].steps = <<"lookup", "extract", "check">>
          /\ worker[w].response.status_code # 200
          /\ worker[w].op = "ask"

====
